---- MODULE Spec2Model ----
(***************************************************************************)
(* A model of the Maven-style resolver of src/src/lib.rs: coordinates      *)
(* (Artifact), descriptors (Project), the URL builder, the descriptor      *)
(* cache, fetch_project, build_effective_pom, try_download_package and the *)
(* download_all_jars loop, run against a transport that serves a fixed     *)
(* content per URL.                                                        *)
(*                                                                         *)
(* Encoding.  Option<T> is a sequence of length 0 (None) or 1 (Some).      *)
(* A String that the code inspects character by character (group_id,      *)
(* version, property names and values) is a sequence of one-character      *)
(* strings; a String the code only compares or prints (artifact_id,        *)
(* packaging, classifier, scope, base_url) is one TLA+ string.  A          *)
(* HashMap is a function; a Result is a record with a field ok.            *)
(***************************************************************************)
EXTENDS Integers, Sequences, FiniteSets, TLC

\* ------------------------------------------------------------ Option, Result

None == <<>>

Some(x) == <<x>>

IsSome(o) == Len(o) = 1

IsNone(o) == Len(o) = 0

Unwrap(o) == o[1]

Ok(v) == [ok |-> TRUE, val |-> v, kind |-> "Ok"]

Err(k) == [ok |-> FALSE, val |-> <<>>, kind |-> k]

\* The two variants of ErrorKind, and the outcome of a panic (an unwrap of an
\* Err, a slice index out of order, a recursion that overflows the stack).
ClientError == "ClientError"

FileNotFound == "FileNotFound"

Panic == "Panic"

\* ------------------------------------------------------------ strings

\* str::replace(from, to) for a one-character pattern.
ReplaceChar(s, from, to) == [i \in 1..Len(s) |-> IF s[i] = from THEN to ELSE s[i]]

\* str::replace(c, ""): every occurrence of the character removed.
RemoveChar(s, c) == SelectSeq(s, LAMBDA t : t # c)

\* str::find(pat): the 0-based index of the first occurrence as Some(i), or None.
Find(s, pat) ==
    LET hits == {i \in 1..(Len(s) - Len(pat) + 1) : SubSeq(s, i, i + Len(pat) - 1) = pat}
    IN  IF hits = {} THEN None
        ELSE Some((CHOOSE i \in hits : \A j \in hits : i <= j) - 1)

\* &s[from..to] with 0-based, end-exclusive byte indices (the caller checks from <= to).
Slice(s, from, to) == SubSeq(s, from + 1, to)

\* String::replace_range(from..to, with).
ReplaceRange(s, from, to, with) == SubSeq(s, 1, from) \o with \o SubSeq(s, to + 1, Len(s))

\* ------------------------------------------------------------ Artifact

NewArtifact(g, a, v, p, c) ==
    [group_id |-> g, artifact_id |-> a, version |-> v, packaging |-> p, classifier |-> c]

pom(g, a, v) == NewArtifact(Some(g), Some(a), Some(v), Some("pom"), None)

DefaultArtifact == NewArtifact(None, None, None, None, None)

\* A version that keeps its brackets.
VersionKept(a) == a.version

version_cleaned(a) ==
    IF IsNone(a.version) THEN None
    ELSE Some(RemoveChar(RemoveChar(Unwrap(a.version), "["), "]"))

with_packaging(a, packaging) == [a EXCEPT !.packaging = Some(packaging)]

\* Artifact::interpolate.  The result is Err(Panic) where the slice
\* s[start + 2..end] has its start after its end.
interpolate(a, properties) ==
    IF IsNone(a.version) THEN Ok(a)
    ELSE
      LET s     == Unwrap(a.version)
          start == Find(s, <<"$", "{">>)
      IN  IF IsNone(start) THEN Ok(a)
          ELSE
            LET st  == Unwrap(start)
                end == Find(Slice(s, st, Len(s)), <<"}">>)
            IN  IF IsNone(end) THEN Ok(a)
                ELSE
                  LET en == Unwrap(end)
                  IN  IF st + 2 > en THEN Err(Panic)
                      ELSE
                        LET expr == Slice(s, st + 2, en)
                        IN  IF expr \in DOMAIN properties
                            THEN Ok([a EXCEPT !.version =
                                        Some(ReplaceRange(s, st, en + 1, properties[expr]))])
                            ELSE Ok(a)

same_ga(a, b) == a.group_id = b.group_id /\ a.artifact_id = b.artifact_id

OrElse(o, alt) == IF IsSome(o) THEN o ELSE alt

\* Artifact::normalize: the classifier is not copied (..Default::default()).
normalize(a, parent, default_packaging) ==
    [group_id    |-> OrElse(a.group_id, parent.group_id),
     artifact_id |-> OrElse(a.artifact_id, parent.artifact_id),
     version     |-> OrElse(a.version, parent.version),
     packaging   |-> OrElse(a.packaging, Some(default_packaging)),
     classifier  |-> None]

\* Artifact::filename: {artifact_id}/{version_cleaned}.{packaging}; the unwraps
\* panic on an absent field.
filename(a) ==
    IF IsNone(a.artifact_id) \/ IsNone(a.version) \/ IsNone(a.packaging) THEN Err(Panic)
    ELSE Ok(<<Unwrap(a.artifact_id), "/">> \o Unwrap(version_cleaned(a))
            \o <<".", Unwrap(a.packaging)>>)

\* ------------------------------------------------------------ Dependency

NewDependency(fqn, scope) == [artifact_fqn |-> fqn, scope |-> scope]

get_key(dep) ==
    [group_id |-> dep.artifact_fqn.group_id, artifact_id |-> dep.artifact_fqn.artifact_id]

normalize_dep(dep, parent_id, default_packaging) ==
    [artifact_fqn |-> normalize(dep.artifact_fqn, parent_id, default_packaging),
     scope        |-> OrElse(dep.scope, Some("compile"))]

\* ------------------------------------------------------------ HashMap

\* HashMap::insert.
Insert(m, k, v) == [x \in (DOMAIN m) \cup {k} |-> IF x = k THEN v ELSE m[x]]

EmptyMap == <<>>

\* A fixed ranking of the artifact ids that occur, from which the two iteration
\* orders of a HashMap that the model distinguishes are built.
NameOrder == <<"a", "b", "m", "p", "x", "y">>

NameRank(o) ==
    IF IsNone(o) THEN 0
    ELSE CHOOSE i \in 1..Len(NameOrder) : NameOrder[i] = Unwrap(o)

KeyRank(k) == 2 * NameRank(k.artifact_id) + (IF IsSome(k.group_id) THEN 1 ELSE 0)

\* The iteration order of a HashMap with key set S.  The order is unspecified
\* in Rust; rev picks between a base order and its reverse, which are all the
\* orders of a map with at most two entries.
RECURSIVE IterKeys(_, _)
IterKeys(S, rev) ==
    IF S = {} THEN <<>>
    ELSE
      LET k == IF rev THEN CHOOSE x \in S : \A y \in S : KeyRank(y) <= KeyRank(x)
                      ELSE CHOOSE x \in S : \A y \in S : KeyRank(x) <= KeyRank(y)
      IN  <<k>> \o IterKeys(S \ {k}, rev)

\* normalize_gavs: every entry normalized and re-keyed; of two entries that
\* normalize to one key, collect() keeps the one iterated last.
normalize_gavs(dependencies, parent_fqn, default_packaging, rev) ==
    LET order  == IterKeys(DOMAIN dependencies, rev)
        norm(k) == normalize_dep(dependencies[k], parent_fqn, default_packaging)
        keys   == {get_key(norm(k)) : k \in DOMAIN dependencies}
        last(n) == CHOOSE i \in 1..Len(order) :
                      /\ get_key(norm(order[i])) = n
                      /\ \A j \in (i + 1)..Len(order) : get_key(norm(order[j])) # n
    IN  [n \in keys |-> norm(order[last(n)])]

\* ------------------------------------------------------------ Project, Repository

NewProject(parent, fqn, dm, deps, props) ==
    [parent |-> parent, artifact_fqn |-> fqn, dependency_management |-> dm,
     dependencies |-> deps, properties |-> props]

Repository(base_url) == [base_url |-> base_url]

ErrWith(k, m) == [ok |-> FALSE, val |-> <<m>>, kind |-> k]

\* ResolverError::missing_parameter: a ClientError naming the field.
missing_parameter(field_name) == ErrWith(ClientError, field_name)

\* ResolverError::file_not_found.
file_not_found == Err(FileNotFound)

\* ------------------------------------------------------------ URL builder

create_url_with_repository(repository, id) ==
    IF IsNone(id.group_id) THEN missing_parameter("groupId")
    ELSE IF IsNone(id.artifact_id) THEN missing_parameter("artifactId")
    ELSE IF IsNone(id.version) THEN missing_parameter("version")
    ELSE
      LET group_id    == Unwrap(id.group_id)
          artifact_id == Unwrap(id.artifact_id)
          packaging   == IF IsSome(id.packaging) THEN Unwrap(id.packaging) ELSE "jar"
          version     == Unwrap(version_cleaned(id))
      IN  Ok(<<repository.base_url, "/">> \o ReplaceChar(group_id, ".", "/")
             \o <<"/", artifact_id, "/">> \o version \o <<"/", artifact_id, "-">> \o version
             \o (IF IsSome(id.classifier) THEN <<"-", Unwrap(id.classifier)>> ELSE <<>>)
             \o <<".", packaging>>)

\* ------------------------------------------------------------ state

VARIABLES
    stack,          \* the frames of a build_effective_pom call run step by step, innermost last
    ret,            \* the value the frame that ended last returned
    readers,        \* the Ref guards of project_cache alive (RefCell::borrow)
    writer,         \* a RefMut guard of project_cache is alive (RefCell::borrow_mut)
    given,          \* the arguments of a direct call of a pure function: [repository, id, properties]
    remote,         \* what the transport serves: [text, bytes], each a map from URL to response
    project_cache,  \* Resolver::project_cache
    files,          \* the paths that exist under the target directory
    pc,             \* "idle", or "loop" inside download_all_jars, or "returned" / "panicked"
    todo,           \* download_all_jars: the queue
    done,           \* download_all_jars: the visited set
    returned,       \* the set download_all_jars returned last
    roots,          \* the root_artifacts of the last download_all_jars call that returned
    repeat,         \* the current download_all_jars call has the roots of the one before
    last,           \* the current or last call: [op, repo, id, res]; id is a coordinate, or
                    \* [root_artifacts] for download_all_jars
    trace           \* the fetch_project and fetch_bytes calls made by the current or last call

vars == <<stack, ret, readers, writer, given, remote, project_cache, files, pc, todo, done, returned, roots, repeat, last, trace>>

\* Resolver::repositories, the configured order.
Repositories == <<Repository("A"), Repository("B")>>

\* ------------------------------------------------------------ transport and parser ports

\* UrlFetcher::fetch: the text at the URL, FileNotFound where nothing is served.
fetch(url) == IF url \in DOMAIN remote.text THEN remote.text[url] ELSE file_not_found

\* UrlFetcher::fetch_bytes.
fetch_bytes(url) == IF url \in DOMAIN remote.bytes THEN remote.bytes[url] ELSE file_not_found

\* PomParser::parse: the Project a well-formed document describes, else a ClientError.
parse(text) == IF text.wellformed THEN Ok(text.doc) ELSE Err(ClientError)

\* ------------------------------------------------------------ fetch_project

\* Lines 492-517: the packaging forced to pom and, under a parent, the project's
\* own coordinate and its dependencies normalized against the parent.
NormalizeProject(project, rev) ==
    LET project_id == with_packaging(project.artifact_fqn, "pom")
    IN  IF IsSome(project.parent)
        THEN LET parent_fqn == with_packaging(Unwrap(project.parent), "pom")
             IN  [parent                |-> Some(parent_fqn),
                  artifact_fqn          |-> normalize(project_id, parent_fqn, "pom"),
                  dependency_management |->
                      IF IsSome(project.dependency_management)
                      THEN Some(normalize_gavs(Unwrap(project.dependency_management),
                                               parent_fqn, "jar", rev))
                      ELSE None,
                  dependencies          |-> normalize_gavs(project.dependencies, parent_fqn,
                                                           "jar", rev),
                  properties            |-> project.properties]
        ELSE [project EXCEPT !.artifact_fqn = project_id]

\* One entry of trace for a fetch_project call.
FetchEntry(repository, project_id, transport, res) ==
    [call |-> "fetch_project", repo |-> repository.base_url, id |-> project_id,
     transport |-> transport, res |-> res]

\* A cache that stores the project under the coordinate that was asked for.
CacheUnderRequested(st, repository, project_id, project) ==
    [res |-> Ok(project),
     st  |-> [cache |-> Insert(st.cache, project_id, project),
              log   |-> Append(st.log, FetchEntry(repository, project_id, TRUE, Ok(project)))]]

\* Lines 519-526: the project inserted into the cache under its own
\* coordinate and returned.
CacheProject(st, repository, project_id, project) ==
    [res |-> Ok(project),
     st  |-> [cache |-> Insert(st.cache, project.artifact_fqn, project),
              log   |-> Append(st.log, FetchEntry(repository, project_id, TRUE, Ok(project)))]]

\* Resolver::fetch_project on the state st = [cache, log]: the result and the
\* state after it.
fetch_project(st, repository, requested, rev) ==
    LET project_id == with_packaging(requested, "pom")
        out(res, cache, transport) ==
            [res |-> res,
             st  |-> [cache |-> cache,
                      log   |-> Append(st.log, FetchEntry(repository, project_id, transport, res))]]
    IN  IF project_id \in DOMAIN st.cache
        THEN out(Ok(st.cache[project_id]), st.cache, FALSE)
        ELSE
          LET url == create_url_with_repository(repository, project_id)
          IN  IF ~url.ok THEN out(url, st.cache, FALSE)
              ELSE
                LET text == fetch(url.val)
                IN  IF ~text.ok THEN out(text, st.cache, TRUE)
                    ELSE
                      LET parsed == parse(text.val)
                      IN  IF ~parsed.ok THEN out(parsed, st.cache, TRUE)
                          ELSE CacheProject(st, repository, project_id,
                                            NormalizeProject(parsed.val, rev))

\* ------------------------------------------------------------ build_effective_pom

\* The depth of recursion (parent and BOM chains) the stack holds.
MaxDepth == 4

ProjectVersionKey ==
    <<"p", "r", "o", "j", "e", "c", "t", ".", "v", "e", "r", "s", "i", "o", "n">>

\* Lines 411-415: properties["project.version"] set to the requested version.
InjectProjectVersion(project, project_id) ==
    IF IsSome(project_id.version)
    THEN [project EXCEPT !.properties =
             Insert(project.properties, ProjectVersionKey, Unwrap(project_id.version))]
    ELSE project

\* A merge in which the parent's entries replace the project's own.
ParentOverwrites(project, parent_project) ==
    [project EXCEPT !.dependencies =
        [k \in (DOMAIN project.dependencies) \cup (DOMAIN parent_project.dependencies) |->
            IF k \in DOMAIN parent_project.dependencies
            THEN parent_project.dependencies[k] ELSE project.dependencies[k]]]

\* Lines 424-430: the parent's dependencies whose key the project does not have
\* are added to the project's.
MergeParent(project, parent_project) ==
    LET own   == project.dependencies
        extra == {k \in DOMAIN parent_project.dependencies : k \notin DOMAIN own}
    IN  [project EXCEPT !.dependencies =
            [k \in (DOMAIN own) \cup extra |->
                IF k \in DOMAIN own THEN own[k] ELSE parent_project.dependencies[k]]]

\* Lines 434-436: every entry of the cloned dependency-management block
\* interpolated; Err(Panic) if an interpolation panics.
InterpolateAll(dm, properties) ==
    IF \E k \in DOMAIN dm : ~interpolate(dm[k].artifact_fqn, properties).ok
    THEN Err(Panic)
    ELSE Ok([k \in DOMAIN dm |->
                [dm[k] EXCEPT !.artifact_fqn = interpolate(dm[k].artifact_fqn, properties).val]])

\* Lines 438-443: the entries with scope import, in iteration order.
Boms(dm, rev) ==
    LET order == IterKeys(DOMAIN dm, rev)
    IN  [i \in 1..Len(SelectSeq(order, LAMBDA k : dm[k].scope = Some("import"))) |->
            dm[SelectSeq(order, LAMBDA k : dm[k].scope = Some("import"))[i]]]

\* HashMap::extend: the entries of more overwrite those of m.
Extend(m, more) ==
    [k \in (DOMAIN m) \cup (DOMAIN more) |-> IF k \in DOMAIN more THEN more[k] ELSE m[k]]

\* Lines 461: the project build_effective_pom returns, given the project after
\* the parent merge and the local project_dm after the BOM imports.  project_dm
\* is a clone that goes out of scope: it is not stored back.
Assembled(project, project_dm) == project

RECURSIVE build_effective_pom(_, _, _, _)
RECURSIVE TryRepositories(_, _, _, _, _)
RECURSIVE AfterFetch(_, _, _, _, _)
RECURSIVE Assemble(_, _, _, _, _)
RECURSIVE AfterParent(_, _, _, _)
RECURSIVE ImportInto(_, _, _, _)
RECURSIVE AfterInterpolate(_, _, _, _, _)
RECURSIVE ImportBoms(_, _, _, _, _, _)
RECURSIVE AfterBom(_, _, _, _, _, _)

\* Lines 452-457: the dependency management of an assembled BOM merged into
\* project_dm, or the failure of its assembly propagated (the ? of line 450).
AfterBom(bom, project_dm, boms, i, rev, depth) ==
    IF ~bom.res.ok THEN bom
    ELSE ImportBoms(bom.st,
                    IF IsSome(bom.res.val.dependency_management)
                    THEN Extend(project_dm, Unwrap(bom.res.val.dependency_management))
                    ELSE project_dm,
                    boms, i + 1, rev, depth)

\* Lines 445-458: each BOM from the i-th on assembled in turn.
ImportBoms(st, project_dm, boms, i, rev, depth) ==
    IF i > Len(boms) THEN [res |-> Ok(project_dm), st |-> st]
    ELSE AfterBom(build_effective_pom(st, boms[i].artifact_fqn, rev, depth - 1),
                  project_dm, boms, i, rev, depth)

\* Line 461: the project is returned once the imports succeeded.
AfterImport(project, imported) ==
    IF ~imported.res.ok THEN imported
    ELSE [res |-> Ok(Assembled(project, imported.res.val)), st |-> imported.st]

\* Lines 438-458: the BOMs of the interpolated block dm imported; a panic of
\* the interpolation ends the call.
AfterInterpolate(project, st, dm, rev, depth) ==
    IF ~dm.ok THEN [res |-> dm, st |-> st]
    ELSE AfterImport(project, ImportBoms(st, dm.val, Boms(dm.val, rev), 1, rev, depth))

\* Lines 433-461: the dependency-management block of the project, if it has one.
ImportInto(project, st, rev, depth) ==
    IF IsNone(project.dependency_management) THEN [res |-> Ok(project), st |-> st]
    ELSE AfterInterpolate(project, st,
                          InterpolateAll(Unwrap(project.dependency_management),
                                         project.properties),
                          rev, depth)

\* Lines 420-431: the failure of the parent's assembly propagated (the ? of
\* line 420), or the parent's dependencies merged in.
AfterParent(project, parent, rev, depth) ==
    IF ~parent.res.ok THEN parent
    ELSE ImportInto(IF IsSome(project.parent) THEN MergeParent(project, parent.res.val)
                    ELSE project,
                    parent.st, rev, depth)

\* Lines 411-461: the body of the repository loop once fetch_project succeeded.
Assemble(st, fetched, project_id, rev, depth) ==
    AfterParent(InjectProjectVersion(fetched, project_id),
                IF IsSome(fetched.parent)
                THEN build_effective_pom(st, Unwrap(fetched.parent), rev, depth - 1)
                ELSE [res |-> Ok(fetched), st |-> st],
                rev, depth)

\* A repository loop that ends at the first failed fetch_project.
StopAfter(err) == FALSE

\* Lines 404-409: what the repository loop does with a failed fetch_project.
\* TRUE: go on with the next repository (let ... else continue).
ContinueAfter(err) == TRUE

\* Lines 405-461: what the loop does with f, the outcome of fetch_project
\* against repository i.
AfterFetch(f, project_id, i, rev, depth) ==
    IF f.res.ok THEN Assemble(f.st, f.res.val, project_id, rev, depth)
    ELSE IF ContinueAfter(f.res) THEN TryRepositories(f.st, project_id, i + 1, rev, depth)
    ELSE f

\* Lines 404-464: the repository loop from repository i on.
TryRepositories(st, project_id, i, rev, depth) ==
    IF i > Len(Repositories) THEN [res |-> file_not_found, st |-> st]
    ELSE AfterFetch(fetch_project(st, Repositories[i], project_id, rev), project_id, i,
                    rev, depth)

\* Resolver::build_effective_pom on the state st; depth is the stack left, and
\* a recursion deeper than the stack aborts the program.
build_effective_pom(st, project_id, rev, depth) ==
    IF depth = 0 THEN [res |-> Err(Panic), st |-> st]
    ELSE TryRepositories(st, with_packaging(project_id, "pom"), 1, rev, depth)

\* ------------------------------------------------------------ try_download_package, extraction

\* One entry of trace for a fetch_bytes call.
BytesEntry(repository, packaged_id, res) ==
    [call |-> "fetch_bytes", repo |-> repository.base_url, id |-> packaged_id,
     transport |-> TRUE, res |-> res]

\* A package fetcher that tries jar before aar.
JarFirst == <<"jar", "aar">>

\* Line 331: the packagings tried for each repository, in order.
Packagings == <<"aar", "jar">>

\* Resolver::try_download_package from candidate n on, the candidates being
\* numbered (repository, packaging) in loop order.
RECURSIVE TryCandidates(_, _, _)
TryCandidates(log, id, n) ==
    IF n > Len(Repositories) * Len(Packagings) THEN [res |-> file_not_found, log |-> log]
    ELSE
      LET repository  == Repositories[((n - 1) \div Len(Packagings)) + 1]
          packaging   == Packagings[((n - 1) % Len(Packagings)) + 1]
          packaged_id == with_packaging(id, packaging)
          url         == create_url_with_repository(repository, packaged_id)
      IN  IF ~url.ok THEN [res |-> url, log |-> log]
          ELSE IF fetch_bytes(url.val).ok
          THEN [res |-> Ok([tag |-> packaging, bytes |-> fetch_bytes(url.val).val]),
                log |-> Append(log, BytesEntry(repository, packaged_id, Ok(packaging)))]
          ELSE TryCandidates(Append(log, BytesEntry(repository, packaged_id,
                                                    Err(fetch_bytes(url.val).kind))),
                             id, n + 1)

try_download_package(log, id) == TryCandidates(log, id, 1)

\* Packaging::extract_jar_file: a Jar is written as it is; an Aar must be a zip
\* archive that holds classes.jar.
extract_jar_file(package) ==
    IF package.tag = "aar" /\ ~package.bytes.zip_with_classes THEN Err(ClientError) ELSE Ok(<<>>)

\* ------------------------------------------------------------ download_all_jars

\* A walk that enqueues every dependency, whatever its scope.
AllDeps(project, rev) ==
    [i \in 1..Len(IterKeys(DOMAIN project.dependencies, rev)) |->
        project.dependencies[IterKeys(DOMAIN project.dependencies, rev)[i]].artifact_fqn]

\* Lines 567-573: the coordinates of the compile-scope dependencies, in the
\* iteration order of the dependency map.
CompileDeps(project, rev) ==
    LET order  == IterKeys(DOMAIN project.dependencies, rev)
        chosen == SelectSeq(order, LAMBDA k : project.dependencies[k].scope = Some("compile"))
    IN  [i \in 1..Len(chosen) |-> project.dependencies[chosen[i]].artifact_fqn]

\* A download that does not look at the extraction path.
AlwaysDownload(extract_path, fs) == TRUE

\* Line 559: whether the package is downloaded, given the extraction path.
NeedsDownload(extract_path, fs) == extract_path \notin fs

\* Lines 562-573: the package unwrapped and extracted, the file written.
AfterPackage(package, st, fs, path, project, rev) ==
    IF ~package.res.ok \/ ~extract_jar_file(package.res.val).ok
    THEN [panicked |-> TRUE, st |-> [st EXCEPT !.log = package.log], files |-> fs,
          push |-> <<>>]
    ELSE [panicked |-> FALSE, st |-> [st EXCEPT !.log = package.log],
          files |-> fs \cup {path}, push |-> CompileDeps(project, rev)]

\* Lines 549-573: the assembled project unwrapped, its package downloaded
\* unless the extraction path exists, its compile dependencies enqueued.
AfterAssembly(bep, fs, rev) ==
    IF \/ ~bep.res.ok
       \/ IsNone(bep.res.val.artifact_fqn.artifact_id)
       \/ ~filename(with_packaging(bep.res.val.artifact_fqn, "jar")).ok
    THEN [panicked |-> TRUE, st |-> bep.st, files |-> fs, push |-> <<>>]
    ELSE IF NeedsDownload(filename(with_packaging(bep.res.val.artifact_fqn, "jar")).val, fs)
    THEN AfterPackage(try_download_package(bep.st.log, bep.res.val.artifact_fqn),
                      bep.st, fs,
                      filename(with_packaging(bep.res.val.artifact_fqn, "jar")).val,
                      bep.res.val, rev)
    ELSE [panicked |-> FALSE, st |-> bep.st, files |-> fs,
          push |-> CompileDeps(bep.res.val, rev)]

\* Lines 545-573: one coordinate that was not in done processed.  panicked
\* tells that one of the unwraps failed, which aborts the call.
ProcessArtifact(st, fs, artifact, rev) ==
    AfterAssembly(build_effective_pom(st, artifact, rev, MaxDepth), fs, rev)

\* ------------------------------------------------------------ what the transport serves

G == <<"g">>

Coord(name, version, packaging) ==
    NewArtifact(Some(G), Some(name), Some(version), packaging, None)

DepKey(name) == [group_id |-> Some(G), artifact_id |-> Some(name)]

Placeholder == <<"$", "{", "v", "}">>

\* a:1 as repository A has it: a child of p:1 that takes group and version from
\* the parent, imports the BOM m:1 and uses the property v.
DocA ==
    NewProject(Some(Coord("p", <<"1">>, None)),
               NewArtifact(None, Some("a"), None, None, None),
               Some(DepKey("m") :> NewDependency(Coord("m", <<"1">>, Some("pom")), Some("import"))
                    @@ DepKey("y") :> NewDependency(Coord("y", Placeholder, None), None)),
               DepKey("x") :> NewDependency(Coord("x", <<"2">>, None), None)
                    @@ DepKey("y") :> NewDependency(Coord("y", Placeholder, None), Some("test")),
               <<"v">> :> <<"5">>)

\* a:1 as repository B has it: no parent, one dependency without scope or packaging.
DocB ==
    NewProject(None, Coord("a", <<"1">>, None), None,
               DepKey("x") :> NewDependency(Coord("x", <<"2">>, None), None),
               EmptyMap)

\* The parent p:1.
DocP ==
    NewProject(None, Coord("p", <<"1">>, Some("pom")), None,
               DepKey("x") :> NewDependency(Coord("x", <<"1">>, Some("jar")), Some("compile"))
                    @@ DepKey("b") :> NewDependency(Coord("b", <<"1">>, Some("jar")), Some("compile")),
               EmptyMap)

\* The BOM m:1.
DocM ==
    NewProject(None, Coord("m", <<"1">>, Some("pom")),
               Some(DepKey("y") :> NewDependency(Coord("y", <<"5">>, Some("jar")), Some("compile"))
                    @@ DepKey("b") :> NewDependency(Coord("b", <<"2">>, Some("jar")), Some("compile"))),
               EmptyMap, EmptyMap)

\* A leaf that declares the coordinate name:version.
DocLeaf(name, version) ==
    NewProject(None, Coord(name, version, None), None, EmptyMap, EmptyMap)

\* b:1, which depends on a:1 (a cycle of compile dependencies a -> b -> a).
DocB1 ==
    NewProject(None, Coord("b", <<"1">>, None), None,
               DepKey("a") :> NewDependency(Coord("a", <<"1">>, Some("jar")), Some("compile")),
               EmptyMap)

WellFormed(doc) == Ok([wellformed |-> TRUE, doc |-> doc])

\* A text that is no POM; its doc is never read.
Garbage ==
    Ok([wellformed |-> FALSE,
        doc |-> NewProject(None, DefaultArtifact, None, EmptyMap, EmptyMap)])

UrlOf(base, id) == create_url_with_repository(Repository(base), id).val

JarBytes == Ok([zip_with_classes |-> FALSE])

AarBytes == Ok([zip_with_classes |-> TRUE])

\* The responses the transport can give for a:1.pom at A and at B, for p:1.pom
\* at A, and the documents x:2.pom at A can be.
ResponsesA == {WellFormed(DocA), file_not_found, Err(ClientError), Garbage}

ResponsesB == {WellFormed(DocB), file_not_found}

ResponsesP == {WellFormed(DocP), file_not_found}

ResponsesX == {WellFormed(DocLeaf("x", <<"2">>)), WellFormed(DocLeaf("x", <<"1">>))}

World(ra, rb, rp, rx) ==
    [text  |-> UrlOf("A", Coord("a", <<"1">>, Some("pom"))) :> ra
            @@ UrlOf("B", Coord("a", <<"1">>, Some("pom"))) :> rb
            @@ UrlOf("A", Coord("p", <<"1">>, Some("pom"))) :> rp
            @@ UrlOf("B", Coord("m", <<"1">>, Some("pom"))) :> WellFormed(DocM)
            @@ UrlOf("A", Coord("x", <<"2">>, Some("pom"))) :> rx
            @@ UrlOf("A", Coord("b", <<"1">>, Some("pom"))) :> WellFormed(DocB1),
     bytes |-> UrlOf("B", Coord("a", <<"1">>, Some("aar"))) :> AarBytes
            @@ UrlOf("A", Coord("x", <<"2">>, Some("jar"))) :> JarBytes
            @@ UrlOf("A", Coord("x", <<"1">>, Some("jar"))) :> JarBytes
            @@ UrlOf("A", Coord("b", <<"1">>, Some("aar"))) :> Err(ClientError)
            @@ UrlOf("B", Coord("b", <<"1">>, Some("jar"))) :> JarBytes]

\* The worlds: every pair of answers for a:1.pom with the parent served and
\* x:2.pom declaring x:2, and the two worlds in which the parent is missing or
\* x:2.pom declares x:1.
Worlds ==
    {World(ra, rb, WellFormed(DocP), WellFormed(DocLeaf("x", <<"2">>))) :
        ra \in ResponsesA, rb \in ResponsesB}
    \cup {World(WellFormed(DocA), WellFormed(DocB), rp, rx) :
            rp \in ResponsesP, rx \in ResponsesX}

\* The coordinates callers ask for: a:1, a:[1] (the same URL), x:2 as a jar,
\* and a coordinate without a version.
Requests ==
    {Coord("a", <<"1">>, Some("pom")), Coord("a", <<"[", "1", "]">>, Some("pom")),
     Coord("x", <<"2">>, Some("jar")),
     NewArtifact(Some(G), Some("a"), None, Some("pom"), None)}

\* The coordinates callers ask try_download_package for: served as an aar by
\* the second repository, served after a ClientError, served nowhere, and
\* without a version.
PackageRequests ==
    {Coord("a", <<"1">>, Some("pom")), Coord("b", <<"1">>, None),
     Coord("m", <<"1">>, Some("jar")),
     NewArtifact(Some(G), Some("a"), None, Some("pom"), None)}

RootLists ==
    {<<Coord("a", <<"1">>, Some("pom"))>>,
     <<Coord("x", <<"2">>, Some("jar")), Coord("a", <<"[", "1", "]">>, Some("pom"))>>}

\* ------------------------------------------------------------ the calls

\* The extraction path of a coordinate, None where it has none.
PathOf(id) ==
    IF filename(with_packaging(id, "jar")).ok
    THEN Some(filename(with_packaging(id, "jar")).val)
    ELSE None

\* The entries of log from position from on, each with the field existed: the
\* extraction path of its coordinate was on disk (fs) when the call began.
Stamp(log, from, fs) ==
    [i \in 1..(Len(log) - from + 1) |->
        [call      |-> log[from + i - 1].call,
         repo      |-> log[from + i - 1].repo,
         id        |-> log[from + i - 1].id,
         transport |-> log[from + i - 1].transport,
         res       |-> log[from + i - 1].res,
         existed   |-> IsSome(PathOf(log[from + i - 1].id))
                       /\ Unwrap(PathOf(log[from + i - 1].id)) \in fs]]

Call(op, repo, id, res) == [op |-> op, repo |-> repo, id |-> id, res |-> res]

\* No step-by-step run: no frame, no guard.
NoFrames ==
    /\ stack = <<>>
    /\ ret = Ok(<<>>)
    /\ readers = 0
    /\ writer = FALSE

Init ==
    /\ NoFrames
    /\ given = <<>>
    /\ remote \in Worlds
    /\ project_cache = EmptyMap
    /\ files = {}
    /\ pc = "idle"
    /\ todo = <<>>
    /\ done = {}
    /\ returned = {}
    /\ roots = None
    /\ repeat = FALSE
    /\ last = Call("new", "", DefaultArtifact, Ok(<<>>))
    /\ trace = <<>>

\* Resolver::new: a resolver with an empty cache; what is on disk stays.
NewResolver ==
    /\ pc \in {"idle", "panicked"}
    /\ last.op # "new"
    /\ project_cache' = EmptyMap
    /\ pc' = "idle"
    /\ todo' = <<>>
    /\ done' = {}
    /\ returned' = {}
    /\ repeat' = FALSE
    /\ last' = Call("new", "", DefaultArtifact, Ok(<<>>))
    /\ trace' = <<>>
    /\ UNCHANGED <<stack, ret, readers, writer, given, remote, files, roots>>

\* The outcome r of a call stored: the cache, the calls it made, its result.
Returns(op, repo, id, r) ==
    /\ project_cache' = r.st.cache
    /\ trace' = Stamp(r.st.log, 1, files)
    /\ last' = Call(op, repo, with_packaging(id, "pom"), r.res)

\* A caller's fetch_project(repository, project_id).
FetchProject(repository, project_id, rev) ==
    /\ pc = "idle"
    /\ Returns("fetch_project", repository.base_url, project_id,
               fetch_project([cache |-> project_cache, log |-> <<>>], repository,
                             project_id, rev))
    /\ returned' = {}
    /\ repeat' = FALSE
    /\ UNCHANGED <<stack, ret, readers, writer, given, remote, files, pc, todo, done, roots>>

\* A caller's build_effective_pom(project_id).
BuildEffectivePom(project_id, rev) ==
    /\ pc = "idle"
    /\ Returns("build_effective_pom", "", project_id,
               build_effective_pom([cache |-> project_cache, log |-> <<>>], project_id,
                                   rev, MaxDepth))
    /\ pc' = IF last'.res.kind = Panic THEN "panicked" ELSE "idle"
    /\ returned' = {}
    /\ repeat' = FALSE
    /\ UNCHANGED <<stack, ret, readers, writer, given, remote, files, todo, done, roots>>

\* The outcome r = [res, log] of try_download_package stored.
Downloaded(id, r) ==
    /\ trace' = Stamp(r.log, 1, files)
    /\ last' = Call("try_download_package", "", id,
                    IF r.res.ok THEN Ok([tag |-> r.res.val.tag]) ELSE r.res)

\* A caller's try_download_package(id).
TryDownloadPackage(id) ==
    /\ pc = "idle"
    /\ Downloaded(id, try_download_package(<<>>, id))
    /\ returned' = {}
    /\ repeat' = FALSE
    /\ UNCHANGED <<stack, ret, readers, writer, given, remote, project_cache, files, pc, todo, done, roots>>

\* download_all_jars(root_artifacts, root_directory), lines 535-538: the queue
\* seeded with the roots, done empty.
DownloadStart(root_artifacts) ==
    /\ pc = "idle"
    /\ pc' = "loop"
    /\ todo' = root_artifacts
    /\ done' = {}
    /\ returned' = {}
    /\ repeat' = (roots = Some(root_artifacts))
    /\ trace' = <<>>
    /\ last' = Call("download_all_jars", "", [root_artifacts |-> root_artifacts],
                    Err("Running"))
    /\ UNCHANGED <<stack, ret, readers, writer, given, remote, project_cache, files, roots>>

\* A visited set that never recognizes a coordinate.
NeverDone(artifact, seen) == FALSE

\* Line 541: !done.insert(artifact) - the coordinate (all five fields) was in
\* done already.
AlreadyDone(artifact, seen) == artifact \in seen

\* Lines 540-543: a coordinate popped that is in done already.
DownloadSkip ==
    /\ pc = "loop"
    /\ todo # <<>>
    /\ AlreadyDone(Head(todo), done)
    /\ todo' = Tail(todo)
    /\ UNCHANGED <<stack, ret, readers, writer, given, remote, project_cache, files, pc, done, returned, roots, repeat, last,
                   trace>>

\* The outcome r of processing the head of the queue stored; a panic ends
\* the call and its locals.
Processed(r) ==
    /\ project_cache' = r.st.cache
    /\ trace' = trace \o Stamp(r.st.log, 1, files)
    /\ files' = r.files
    /\ todo' = IF r.panicked THEN <<>> ELSE Tail(todo) \o r.push
    /\ done' = IF r.panicked THEN {} ELSE done \cup {Head(todo)}
    /\ pc' = IF r.panicked THEN "panicked" ELSE "loop"
    /\ last' = IF r.panicked THEN [last EXCEPT !.res = Err(Panic)] ELSE last

\* The length to which trace, the record of the calls of a run, is kept; above
\* the longest record that a run over Worlds and RootLists produces.
MaxCalls == 20

\* Lines 540-574: a coordinate popped, inserted into done and processed.
DownloadProcess(rev) ==
    /\ pc = "loop"
    /\ Len(trace) <= MaxCalls
    /\ todo # <<>>
    /\ ~AlreadyDone(Head(todo), done)
    /\ Processed(ProcessArtifact([cache |-> project_cache, log |-> <<>>], files,
                                 Head(todo), rev))
    /\ UNCHANGED <<stack, ret, readers, writer, given, remote, returned, roots, repeat>>

\* Line 576: the queue is empty; done is returned with every packaging set to jar.
DownloadReturn ==
    /\ pc = "loop"
    /\ todo = <<>>
    /\ returned' = {with_packaging(a, "jar") : a \in done}
    /\ done' = {}
    /\ roots' = Some(last.id.root_artifacts)
    /\ last' = [last EXCEPT !.res = Ok(<<>>)]
    /\ pc' = "idle"
    /\ UNCHANGED <<stack, ret, readers, writer, given, remote, project_cache, files, todo, repeat, trace>>

Next ==
    \/ NewResolver
    \/ \E i \in 1..Len(Repositories), id \in Requests, rev \in BOOLEAN :
          FetchProject(Repositories[i], id, rev)
    \/ \E id \in Requests, rev \in BOOLEAN : BuildEffectivePom(id, rev)
    \/ \E id \in PackageRequests : TryDownloadPackage(id)
    \/ \E rs \in RootLists : DownloadStart(rs)
    \/ DownloadSkip
    \/ \E rev \in BOOLEAN : DownloadProcess(rev)
    \/ DownloadReturn

Spec == Init /\ [][Next]_vars

\* The guard of DownloadProcess: a step of it is possible, and changes todo or pc.
ProcessEnabled ==
    /\ pc = "loop"
    /\ todo # <<>>
    /\ ~AlreadyDone(Head(todo), done)
    /\ Len(trace) <= MaxCalls

\* download_all_jars is sequential code: once called, its loop takes its next
\* step (skip, process, return) as long as it has one.  Callers need not call.
\* The last conjunct is weak fairness of DownloadProcess, written with its
\* guard in the place of ENABLED.
FairSpec ==
    /\ Spec
    /\ WF_vars(DownloadSkip)
    /\ WF_vars(DownloadReturn)
    /\ \/ []<>(~ProcessEnabled)
       \/ []<><<\E rev \in BOOLEAN : DownloadProcess(rev)>>_vars

\* ------------------------------------------------------------ direct calls of the pure functions

\* The coordinates, repositories and property maps that the pure functions are
\* called with.
Groups == {None, Some(G), Some(<<"g", ".", "h", ".", "i">>)}

Versions ==
    {None, Some(<<"1">>), Some(<<"[", "1", "]">>), Some(<<"[", "1", ",", "2", "]">>),
     Some(Placeholder), Some(<<"1">> \o Placeholder), Some(<<"1", "-">> \o Placeholder),
     Some(Placeholder \o <<"-", "1">>), Some(<<"1", "-">> \o Placeholder \o <<"-", "1">>),
     Some(<<"$", "{", "w", "}">>), Some(<<"$", "{", "v">>), Some(<<"$", "{", "}">>)}

PropertyMaps == {EmptyMap, <<"v">> :> <<"5">>}

Givens ==
    [repository : {Repositories[i] : i \in 1..Len(Repositories)},
     id         : {NewArtifact(g, a, v, p, c) :
                      g \in Groups, a \in {None, Some("a")}, v \in Versions,
                      p \in {None, Some("pom")}, c \in {None, Some("c")}},
     properties : PropertyMaps]

\* No call made yet: the arguments drawn, nothing served, nothing cached.
InitPure ==
    /\ NoFrames
    /\ given \in Givens
    /\ remote = [text |-> <<>>, bytes |-> <<>>]
    /\ project_cache = EmptyMap
    /\ files = {}
    /\ pc = "idle"
    /\ todo = <<>>
    /\ done = {}
    /\ returned = {}
    /\ roots = None
    /\ repeat = FALSE
    /\ last = Call("new", "", DefaultArtifact, Ok(<<>>))
    /\ trace = <<>>

\* Resolver::create_url_with_repository(repository, id).
CreateUrl ==
    /\ last' = Call("create_url_with_repository", given.repository.base_url, given.id,
                    create_url_with_repository(given.repository, given.id))
    /\ UNCHANGED <<stack, ret, readers, writer, given, remote, project_cache, files, pc,
                   todo, done, returned, roots, repeat, trace>>

\* Artifact::interpolate(properties) on id.
Interpolate ==
    /\ last' = Call("interpolate", "", given.id, interpolate(given.id, given.properties))
    /\ UNCHANGED <<stack, ret, readers, writer, given, remote, project_cache, files, pc,
                   todo, done, returned, roots, repeat, trace>>

\* Artifact::normalize(parent, default_packaging) on id, as fetch_project calls
\* it for the project's coordinate (line 503, default pom) and, through
\* Dependency::normalize, for a dependency's (line 167, default jar).
Normalize(parent, default_packaging) ==
    /\ last' = Call("normalize", default_packaging, given.id,
                    Ok(normalize(given.id, parent, default_packaging)))
    /\ UNCHANGED <<stack, ret, readers, writer, given, remote, project_cache, files, pc,
                   todo, done, returned, roots, repeat, trace>>

NextPure ==
    \/ CreateUrl
    \/ Interpolate
    \/ \E parent \in {Coord("p", <<"1">>, Some("pom")), DefaultArtifact},
          default_packaging \in {"pom", "jar"} : Normalize(parent, default_packaging)

PureSpec == InitPure /\ [][NextPure]_vars

\* ------------------------------------------------------------ reading a finished call

\* build_effective_pom was called by the caller and has ended.
Assembly == last.op = "build_effective_pom"

\* The fetch_project calls of the repository loop of the caller's
\* build_effective_pom: those for the coordinate asked for.
TopFetches ==
    SelectSeq(trace, LAMBDA e : e.call = "fetch_project" /\ e.id = last.id)

\* The descriptor the repository loop went on with, as fetch_project returned it.
Fetched == TopFetches[Len(TopFetches)].res.val

AssemblyOk == Assembly /\ last.res.ok

\* The effective project of coordinate id on the present cache.
Effective(id) ==
    build_effective_pom([cache |-> project_cache, log |-> <<>>], id, FALSE, MaxDepth).res

\* ------------------------------------------------------------ C1

\* C1: build_effective_pom asks the repositories in configured order; it goes
\* on with the project of the first repository whose fetch_project succeeds and
\* asks no repository after that one; the project it returns is that
\* descriptor (coordinate, parent, dependency management and own dependencies
\* as fetched); when every repository failed the result is FileNotFound.
C1_FirstRepositoryWins ==
    Assembly =>
        /\ Len(TopFetches) <= Len(Repositories)
        /\ \A i \in 1..Len(TopFetches) : TopFetches[i].repo = Repositories[i].base_url
        /\ \A i \in 1..(Len(TopFetches) - 1) : ~TopFetches[i].res.ok
        /\ (\A i \in 1..Len(TopFetches) : ~TopFetches[i].res.ok)
              => /\ Len(TopFetches) = Len(Repositories)
                 /\ last.res = file_not_found
        /\ last.res.ok
              => /\ TopFetches # <<>>
                 /\ TopFetches[Len(TopFetches)].res.ok
                 /\ last.res.val.artifact_fqn = Fetched.artifact_fqn
                 /\ last.res.val.parent = Fetched.parent
                 /\ last.res.val.dependency_management = Fetched.dependency_management
                 /\ \A k \in DOMAIN Fetched.dependencies :
                       /\ k \in DOMAIN last.res.val.dependencies
                       /\ last.res.val.dependencies[k] = Fetched.dependencies[k]

\* A answered FileNotFound, B served the descriptor, and B's project came back.
C1_Witness ==
    /\ AssemblyOk
    /\ Len(TopFetches) = 2
    /\ TopFetches[1].res = file_not_found
    /\ TopFetches[1].transport
    /\ TopFetches[2].repo = "B"
    /\ last.res.val.artifact_fqn = Fetched.artifact_fqn

\* ------------------------------------------------------------ C2

\* C2: when fetch_project fails against a repository with an error that is not
\* FileNotFound, build_effective_pom returns that error and asks no later
\* repository for the coordinate.
C2_ClientErrorAborts ==
    Assembly =>
        \A i \in 1..Len(TopFetches) :
            (~TopFetches[i].res.ok /\ TopFetches[i].res.kind # FileNotFound)
                => /\ i = Len(TopFetches)
                   /\ last.res = TopFetches[i].res

\* ------------------------------------------------------------ C3

\* C3: the dependency management of the project build_effective_pom returns
\* holds every dependency-management entry of the effective project of each
\* BOM it imports.
C3_BomEntriesMerged ==
    (AssemblyOk /\ IsSome(last.res.val.dependency_management)) =>
        LET dm == Unwrap(last.res.val.dependency_management)
        IN  \A b \in {k \in DOMAIN dm : dm[k].scope = Some("import")} :
                (/\ Effective(dm[b].artifact_fqn).ok
                 /\ IsSome(Effective(dm[b].artifact_fqn).val.dependency_management))
                    => \A k \in DOMAIN Unwrap(Effective(dm[b].artifact_fqn).val.dependency_management) :
                          /\ k \in DOMAIN dm
                          /\ dm[k] = Unwrap(Effective(dm[b].artifact_fqn).val.dependency_management)[k]

\* ------------------------------------------------------------ C4

\* C4: a dependency that the descriptor declares with the version ${p}, p a
\* property of the project, has the value of p as its version in the project
\* build_effective_pom returns.
C4_DependencyVersionInterpolated ==
    AssemblyOk =>
        \A k \in DOMAIN Fetched.dependencies : \A name \in DOMAIN Fetched.properties :
            Fetched.dependencies[k].artifact_fqn.version = Some(<<"$", "{">> \o name \o <<"}">>)
                => last.res.val.dependencies[k].artifact_fqn.version
                       = Some(Fetched.properties[name])

\* ------------------------------------------------------------ C5

\* C5: for a project with a parent, the dependencies of the project
\* build_effective_pom returns are the project's own entries as fetched, and
\* the entries of the parent's effective project under the keys the project
\* does not have; there is no other key.
C5_ChildShadowsParent ==
    (AssemblyOk /\ IsSome(Fetched.parent)) =>
        LET own    == Fetched.dependencies
            parent == Effective(Unwrap(Fetched.parent))
            deps   == last.res.val.dependencies
        IN  /\ parent.ok
            /\ DOMAIN deps = (DOMAIN own) \cup (DOMAIN parent.val.dependencies)
            /\ \A k \in DOMAIN own : deps[k] = own[k]
            /\ \A k \in (DOMAIN parent.val.dependencies) \ (DOMAIN own) :
                  deps[k] = parent.val.dependencies[k]

\* A project came back whose parent has a key the project has too, with another
\* entry, and a key the project does not have.
C5_Witness ==
    /\ AssemblyOk
    /\ IsSome(Fetched.parent)
    /\ Effective(Unwrap(Fetched.parent)).ok
    /\ \E k \in DOMAIN Fetched.dependencies :
          /\ k \in DOMAIN Effective(Unwrap(Fetched.parent)).val.dependencies
          /\ Effective(Unwrap(Fetched.parent)).val.dependencies[k] # Fetched.dependencies[k]
    /\ \E k \in DOMAIN Effective(Unwrap(Fetched.parent)).val.dependencies :
          k \notin DOMAIN Fetched.dependencies

\* ------------------------------------------------------------ C6

\* fetch_project called now, against repository i, for the coordinate of the
\* last call.
Again(i) ==
    fetch_project([cache |-> project_cache, log |-> <<>>], Repositories[i], last.id, FALSE)

\* C6: once fetch_project has returned a descriptor for a coordinate, a second
\* call for that coordinate returns an equal descriptor and does not invoke the
\* transport, whatever coordinate the descriptor declares for itself.
C6_SecondFetchFromCache ==
    (last.op = "fetch_project" /\ last.res.ok) =>
        \A i \in 1..Len(Repositories) :
            /\ Again(i).res = last.res
            /\ \A n \in 1..Len(Again(i).st.log) : ~Again(i).st.log[n].transport

\* ------------------------------------------------------------ C7

\* C7: every key of the descriptor cache has packaging pom, and the project
\* stored under a key has that key as its own coordinate.
C7_CacheKeyedByOwnCoordinate ==
    \A k \in DOMAIN project_cache :
        /\ k.packaging = Some("pom")
        /\ project_cache[k].artifact_fqn.packaging = Some("pom")
        /\ project_cache[k].artifact_fqn = k

\* fetch_project returned a descriptor that declares another coordinate than
\* the one asked for, and cached it.
C7_Witness ==
    /\ last.op = "fetch_project"
    /\ last.res.ok
    /\ trace[1].transport
    /\ last.res.val.artifact_fqn # last.id
    /\ last.res.val.artifact_fqn \in DOMAIN project_cache

\* ------------------------------------------------------------ C8

\* A dependency entry d of a cached project is normalized.
Normalized(d, project) ==
    /\ IsSome(d.artifact_fqn.packaging)
    /\ IsSome(project.parent) =>
          /\ IsSome(Unwrap(project.parent).group_id) => IsSome(d.artifact_fqn.group_id)
          /\ IsSome(Unwrap(project.parent).artifact_id) => IsSome(d.artifact_fqn.artifact_id)
          /\ IsSome(Unwrap(project.parent).version) => IsSome(d.artifact_fqn.version)

\* C8: every dependency and every dependency-management entry of every cached
\* project, with or without a parent, is normalized: it has a packaging (jar
\* unless the descriptor set one), and group, name and version wherever the
\* parent coordinate has them.
C8_CachedDependenciesNormalized ==
    \A k \in DOMAIN project_cache :
        /\ \A d \in DOMAIN project_cache[k].dependencies :
              Normalized(project_cache[k].dependencies[d], project_cache[k])
        /\ IsSome(project_cache[k].dependency_management) =>
              \A d \in DOMAIN Unwrap(project_cache[k].dependency_management) :
                  Normalized(Unwrap(project_cache[k].dependency_management)[d],
                             project_cache[k])

\* ------------------------------------------------------------ C9

Download == last.op = "download_all_jars"

\* C9: in a download_all_jars run that repeats the roots of the run before,
\* the transport is not called (for a descriptor or for a package) for a
\* coordinate whose extraction file exists.
C9_NoTransportForExtracted ==
    (Download /\ repeat) =>
        \A n \in 1..Len(trace) : trace[n].transport => ~trace[n].existed

\* C9 as amended: in a download_all_jars run, fetch_bytes is not called (so
\* try_download_package is not invoked) for a coordinate whose extraction file
\* exists.
C9_NoPackageFetchForExtracted ==
    Download =>
        \A n \in 1..Len(trace) : trace[n].call = "fetch_bytes" => ~trace[n].existed

\* A run that repeats the roots of the run before has returned a coordinate
\* whose file was on disk, and has fetched no package.
C9_Witness ==
    /\ Download
    /\ repeat
    /\ pc = "idle"
    /\ last.res.ok
    /\ \E a \in returned : IsSome(PathOf(a)) /\ Unwrap(PathOf(a)) \in files
    /\ \A n \in 1..Len(trace) : trace[n].call # "fetch_bytes"

\* ------------------------------------------------------------ C10

\* C10: when download_all_jars has returned, the file name/versionCleaned.jar
\* of every coordinate of the returned set exists.
C10_ReturnedAreExtracted ==
    (Download /\ pc = "idle" /\ last.res.ok) =>
        \A a \in returned : IsSome(PathOf(a)) /\ Unwrap(PathOf(a)) \in files

\* ------------------------------------------------------------ C11

\* try_download_package was called by the caller and has ended.
PackageCall == last.op = "try_download_package"

\* The candidates of a package fetch in the order the claim gives them.
Candidates ==
    <<[repo |-> "A", packaging |-> "aar"], [repo |-> "A", packaging |-> "jar"],
      [repo |-> "B", packaging |-> "aar"], [repo |-> "B", packaging |-> "jar"]>>

\* The probes made are the first candidates in order, and every probe but the
\* last one failed.
ProbesInOrder ==
    /\ Len(trace) <= Len(Candidates)
    /\ \A n \in 1..Len(trace) :
          /\ trace[n].call = "fetch_bytes"
          /\ trace[n].repo = Candidates[n].repo
          /\ trace[n].id = with_packaging(last.id, Candidates[n].packaging)
    /\ \A n \in 1..(Len(trace) - 1) : ~trace[n].res.ok

\* The result is the first probe that succeeded, tagged with its packaging, or
\* FileNotFound after every candidate failed.
FirstSuccessOrNotFound ==
    IF last.res.ok
    THEN /\ trace # <<>>
         /\ trace[Len(trace)].res.ok
         /\ fetch_bytes(UrlOf(trace[Len(trace)].repo, trace[Len(trace)].id)).ok
         /\ last.res.val.tag = Candidates[Len(trace)].packaging
    ELSE /\ Len(trace) = Len(Candidates)
         /\ ~trace[Len(trace)].res.ok
         /\ last.res = file_not_found

\* C11: try_download_package probes (repo1, aar), (repo1, jar), (repo2, aar),
\* (repo2, jar) in this order, returns the first success tagged with its
\* packaging and probes nothing after it, goes on after any transport error,
\* and returns an error only after every candidate failed, of kind FileNotFound.
C11_FirstPackageWins ==
    PackageCall => (ProbesInOrder /\ FirstSuccessOrNotFound)

\* C11 as amended: for a coordinate with group, name and version the above
\* holds; for a coordinate that lacks one of them the URL builder's
\* ClientError is returned and nothing is probed.
C11_FirstPackageWinsWithUrl ==
    PackageCall =>
        IF create_url_with_repository(Repositories[1], last.id).ok
        THEN ProbesInOrder /\ FirstSuccessOrNotFound
        ELSE /\ trace = <<>>
             /\ last.res = create_url_with_repository(Repositories[1], last.id)
             /\ last.res.kind = ClientError

\* A package came back from the last candidate after a ClientError, and two
\* FileNotFound, of the candidates before it.
C11_Witness ==
    /\ PackageCall
    /\ last.res = Ok([tag |-> "jar"])
    /\ Len(trace) = 4
    /\ trace[1].res.kind = ClientError
    /\ trace[2].res.kind = FileNotFound

\* ------------------------------------------------------------ C12

\* The roots that the running or last download_all_jars was called with.
RootSet == {last.id.root_artifacts[i] : i \in 1..Len(last.id.root_artifacts)}

\* download_all_jars has returned.
DownloadOk == Download /\ pc = "idle" /\ last.res.ok

\* The coordinates of the compile-scope dependencies of the effective project
\* of coordinate c.
CompileEdges(c) ==
    IF Effective(c).ok
    THEN {Effective(c).val.dependencies[k].artifact_fqn :
            k \in {d \in DOMAIN Effective(c).val.dependencies :
                      Effective(c).val.dependencies[d].scope = Some("compile")}}
    ELSE {}

\* The coordinates reachable from those of S through compile-scope dependencies.
RECURSIVE Reachable(_)
Reachable(S) ==
    IF (UNION {CompileEdges(c) : c \in S}) \subseteq S THEN S
    ELSE Reachable(S \cup UNION {CompileEdges(c) : c \in S})

\* C12: the set download_all_jars returns is the roots and every coordinate
\* reachable from a root through compile-scope dependencies of the effective
\* projects, each with its packaging set to jar; nothing else is in it.
C12_ReturnedIsCompileClosure ==
    DownloadOk =>
        /\ returned = {with_packaging(c, "jar") :
                          c \in Reachable(RootSet)}
        /\ \A a \in returned : a.packaging = Some("jar")

\* A run returned a coordinate that is not a root, for a root whose effective
\* project has a dependency of another scope as well.
C12_Witness ==
    /\ DownloadOk
    /\ \E a \in returned : \A r \in RootSet : a # with_packaging(r, "jar")
    /\ \E r \in RootSet :
          /\ Effective(r).ok
          /\ \E d \in DOMAIN Effective(r).val.dependencies :
                Effective(r).val.dependencies[d].scope = Some("test")

\* ------------------------------------------------------------ C13

\* The names the URL builder has for the fields that id lacks.
MissingFields(id) ==
    (IF IsNone(id.group_id) THEN {"groupId"} ELSE {})
    \cup (IF IsNone(id.artifact_id) THEN {"artifactId"} ELSE {})
    \cup (IF IsNone(id.version) THEN {"version"} ELSE {})

\* The version v with every bracket removed.
RECURSIVE Unbracketed(_)
Unbracketed(v) ==
    IF v = <<>> THEN <<>>
    ELSE IF Head(v) \in {"[", "]"} THEN Unbracketed(Tail(v))
    ELSE <<Head(v)>> \o Unbracketed(Tail(v))

\* The group with every dot turned into a slash.
RECURSIVE Slashed(_)
Slashed(g) ==
    IF g = <<>> THEN <<>>
    ELSE <<IF Head(g) = "." THEN "/" ELSE Head(g)>> \o Slashed(Tail(g))

\* {base}/{group}/{name}/{v}/{name}-{v}[-{classifier}].{packaging}
UrlFormat(base, id) ==
    <<base, "/">> \o Slashed(Unwrap(id.group_id)) \o <<"/", Unwrap(id.artifact_id), "/">>
    \o Unbracketed(Unwrap(id.version)) \o <<"/", Unwrap(id.artifact_id), "-">>
    \o Unbracketed(Unwrap(id.version))
    \o (IF IsSome(id.classifier) THEN <<"-", Unwrap(id.classifier)>> ELSE <<>>)
    \o <<".", IF IsSome(id.packaging) THEN Unwrap(id.packaging) ELSE "jar">>

\* C13: create_url_with_repository returns a ClientError that names a missing
\* field when group, name or version is absent, and otherwise the URL
\* {base}/{group, dots as slashes}/{name}/{v}/{name}-{v}[-{classifier}].{packaging}
\* with v the version without brackets, the classifier segment present exactly
\* when a classifier is, and packaging jar when absent; the result is a function
\* of the base URL and the five fields.
C13_UrlFormat ==
    last.op = "create_url_with_repository" =>
        IF MissingFields(given.id) # {}
        THEN /\ ~last.res.ok
             /\ last.res.kind = ClientError
             /\ last.res.val \in {<<f>> : f \in MissingFields(given.id)}
        ELSE last.res = Ok(UrlFormat(given.repository.base_url, given.id))

\* A URL was built for a coordinate with a dotted group, a bracketed version and
\* a classifier, and without packaging.
C13_Witness ==
    /\ last.op = "create_url_with_repository"
    /\ last.res.ok
    /\ given.id.group_id = Some(<<"g", ".", "h", ".", "i">>)
    /\ given.id.version = Some(<<"[", "1", ",", "2", "]">>)
    /\ IsSome(given.id.classifier)
    /\ IsNone(given.id.packaging)

\* ------------------------------------------------------------ C14

\* The descriptor, as the parser yields it, that the n-th call of trace fetched.
Declared(n) == parse(fetch(UrlOf(trace[n].repo, trace[n].id)).val).val

\* The n-th call of trace fetched the descriptor of a coordinate that the run
\* processed and returned.
FetchedForProcessing(n) ==
    /\ trace[n].call = "fetch_project"
    /\ trace[n].transport
    /\ trace[n].res.ok
    /\ with_packaging(trace[n].id, "jar") \in returned

\* C14: a dependency declared without a scope counts as compile scope: when
\* download_all_jars has returned, every dependency that the descriptor of a
\* processed project, with or without a parent, declares without scope was
\* enqueued, so its coordinate is in the returned set.
C14_ScopelessIsCompile ==
    DownloadOk =>
        \A n \in 1..Len(trace) : FetchedForProcessing(n) =>
            \A k \in DOMAIN Declared(n).dependencies :
                IsNone(Declared(n).dependencies[k].scope) =>
                    \E a \in returned :
                        /\ same_ga(a, Declared(n).dependencies[k].artifact_fqn)
                        /\ a.version = Declared(n).dependencies[k].artifact_fqn.version

\* ------------------------------------------------------------ C15

\* C15: in a download_all_jars run a coordinate popped while it is in done is
\* dropped from the queue with no transport call, no file written and nothing
\* else changed; a step that calls the transport or writes a file is for a
\* coordinate that was not in done and is in done from then on, so that no
\* five-field coordinate is processed twice.
C15_ProcessedAtMostOnce ==
    [][(pc = "loop" /\ todo # <<>>) =>
          /\ Head(todo) \in done =>
                /\ todo' = Tail(todo)
                /\ UNCHANGED <<project_cache, files, done, trace, pc>>
          /\ (trace' # trace \/ files' # files \/ done' # done) =>
                /\ Head(todo) \notin done
                /\ pc' = "loop" => done' = done \cup {Head(todo)}]_vars

\* The descriptor calls for coordinate c in trace.
AssembliesOf(c) ==
    SelectSeq(trace, LAMBDA e : e.call = "fetch_project" /\ e.id = with_packaging(c, "pom"))

\* A run has returned in which one coordinate was enqueued by two processed
\* projects, and its descriptor was asked for once.
C15_Witness ==
    /\ DownloadOk
    /\ \E c \in returned : \E p, q \in returned :
          /\ p # q
          /\ c \in CompileEdges(p) \cap CompileEdges(q)
          /\ Len(AssembliesOf(c)) = 1

\* ------------------------------------------------------------ C16

\* Every descriptor of the world is served, well-formed, by the repository that
\* holds it (parent and BOM references are acyclic in every world).
EveryFetchSucceeds ==
    \A url \in DOMAIN remote.text :
        remote.text[url].ok /\ parse(remote.text[url].val).ok

\* Coordinate c lies on a cycle of compile-scope dependencies.
OnCycle(c) == c \in Reachable(CompileEdges(c))

\* C16: with acyclic parent and BOM references and every fetch succeeding, a
\* running download_all_jars eventually empties its queue and returns, also
\* when compile-scope dependencies form a cycle.
C16_DownloadTerminates ==
    (Download /\ pc = "loop" /\ EveryFetchSucceeds) ~> (DownloadOk /\ todo = <<>>)

\* A run has returned a coordinate that lies on a cycle of compile-scope
\* dependencies.
C16_Witness ==
    /\ DownloadOk
    /\ todo = <<>>
    /\ \E c \in returned : OnCycle(c)

\* ------------------------------------------------------------ C17

\* The coordinates that processing the head of the queue appends to the queue,
\* under iteration order rev of the dependency map.
Enqueued(rev) ==
    ProcessArtifact([cache |-> project_cache, log |-> <<>>], files, Head(todo), rev).push

\* C17: the order in which download_all_jars enqueues the compile-scope
\* dependencies of a project, and with it the processing order, is determined
\* by the roots and the descriptors: whenever a coordinate is about to be
\* processed there is one sequence of coordinates that the step can append.
C17_EnqueueOrderDetermined ==
    ProcessEnabled => Enqueued(TRUE) = Enqueued(FALSE)

\* ------------------------------------------------------------ the borrows of project_cache, step by step

\* A build_effective_pom call run one step at a time, to follow the RefCell
\* guards of project_cache: stack holds the frames of the calls in progress,
\* readers and writer the guards alive.

\* The frame of a call of fn for id: i is the repository the loop is at, j the
\* BOM the import loop is at.
Frame(fn, id, i) ==
    [fn |-> fn, id |-> id, i |-> i, step |-> "entry",
     project |-> NewProject(None, DefaultArtifact, None, EmptyMap, EmptyMap),
     boms |-> <<>>, j |-> 1]

\* The frame of the innermost call.
Top == stack[Len(stack)]

At(fn, step) == stack # <<>> /\ Top.fn = fn /\ Top.step = step

Goto(step) == [stack EXCEPT ![Len(stack)].step = step]

\* The build_effective_pom calls in progress.
BepDepth == Cardinality({k \in 1..Len(stack) : stack[k].fn = "build_effective_pom"})

\* RefCell::borrow panics while a RefMut is alive, RefCell::borrow_mut while
\* any guard is alive.
CanBorrow == ~writer

CanBorrowMut == ~writer /\ readers = 0

\* A panic unwinds every frame and drops the guards they hold.
Unwind ==
    /\ stack' = <<>>
    /\ ret' = Err(Panic)
    /\ readers' = 0
    /\ writer' = FALSE
    /\ UNCHANGED project_cache

\* The innermost call returns r to its caller.
Return(r) ==
    /\ stack' = SubSeq(stack, 1, Len(stack) - 1)
    /\ ret' = r

\* What the step-by-step run leaves alone.
restvars == <<given, remote, files, pc, todo, done, returned, roots, repeat, last, trace>>

\* A caller's build_effective_pom(project_id), entered.
StartAssembly(project_id) ==
    /\ stack = <<>>
    /\ stack' = <<Frame("build_effective_pom", with_packaging(project_id, "pom"), 1)>>
    /\ UNCHANGED <<ret, readers, writer, project_cache, restvars>>

\* Lines 404-405 and 464: the repository loop calls fetch_project for the next
\* repository, or returns file_not_found after the last.
NextRepository ==
    /\ At("build_effective_pom", "entry")
    /\ IF Top.i > Len(Repositories)
       THEN Return(file_not_found)
       ELSE /\ stack' = Append(Goto("fetched"), Frame("fetch_project", Top.id, Top.i))
            /\ UNCHANGED ret
    /\ UNCHANGED <<readers, writer, project_cache, restvars>>

\* Line 477, borrow(): the read guard of the lookup is taken.
Lookup ==
    /\ At("fetch_project", "entry")
    /\ IF CanBorrow
       THEN /\ readers' = readers + 1
            /\ stack' = Goto("get")
            /\ UNCHANGED <<ret, writer, project_cache>>
       ELSE Unwind
    /\ UNCHANGED restvars

\* Lines 477-479, get() and clone(): the cached project, if there is one,
\* cloned under the read guard.
Get ==
    /\ At("fetch_project", "get")
    /\ stack' = IF Top.id \in DOMAIN project_cache
                THEN [stack EXCEPT ![Len(stack)].project = project_cache[Top.id],
                                   ![Len(stack)].step = "hit"]
                ELSE Goto("miss")
    /\ UNCHANGED <<ret, readers, writer, project_cache, restvars>>

\* A read guard that outlives the lookup.
GuardKept(n) == n

\* Line 480: the read guard is a temporary of the if-let; it is dropped where
\* the statement ends, on the return of line 479 as well.
ReadersAfterLookup(n) == n - 1

\* Line 479: the clone is returned.
ReturnCached ==
    /\ At("fetch_project", "hit")
    /\ readers' = ReadersAfterLookup(readers)
    /\ Return(Ok(Top.project))
    /\ UNCHANGED <<writer, project_cache, restvars>>

\* Line 480: the lookup missed and the if-let ends.
EndLookup ==
    /\ At("fetch_project", "miss")
    /\ readers' = ReadersAfterLookup(readers)
    /\ stack' = Goto("transport")
    /\ UNCHANGED <<ret, writer, project_cache, restvars>>

\* Lines 483-517 with the descriptor parsed: the normalized project is what the
\* frame goes on with.
Parsed(parsed, rev) ==
    IF ~parsed.ok THEN Return(parsed)
    ELSE /\ stack' = [stack EXCEPT ![Len(stack)].project = NormalizeProject(parsed.val, rev),
                                   ![Len(stack)].step = "borrow_mut"]
         /\ UNCHANGED ret

\* Lines 486-490: the ? of the transport, then the parser.
Received(text, rev) ==
    IF ~text.ok THEN Return(text) ELSE Parsed(parse(text.val), rev)

\* Lines 483-517: the URL built, the transport called, the text parsed and the
\* project normalized; each failure is returned.
Transport(rev) ==
    /\ At("fetch_project", "transport")
    /\ IF ~create_url_with_repository(Repositories[Top.i], Top.id).ok
       THEN Return(create_url_with_repository(Repositories[Top.i], Top.id))
       ELSE Received(fetch(create_url_with_repository(Repositories[Top.i], Top.id).val), rev)
    /\ UNCHANGED <<readers, writer, project_cache, restvars>>

\* Lines 522-523, borrow_mut(): the write guard is taken.
BorrowMut ==
    /\ At("fetch_project", "borrow_mut")
    /\ IF CanBorrowMut
       THEN /\ writer' = TRUE
            /\ stack' = Goto("insert")
            /\ UNCHANGED <<ret, readers, project_cache>>
       ELSE Unwind
    /\ UNCHANGED restvars

\* Line 524, insert(): the project stored under its own coordinate.
InsertProject ==
    /\ At("fetch_project", "insert")
    /\ project_cache' = Insert(project_cache, Top.project.artifact_fqn, Top.project)
    /\ stack' = Goto("stored")
    /\ UNCHANGED <<ret, readers, writer, restvars>>

\* Lines 524-526: the write guard, a temporary of the statement, is dropped and
\* the project returned.
ReturnFetched ==
    /\ At("fetch_project", "stored")
    /\ writer' = FALSE
    /\ Return(Ok(Top.project))
    /\ UNCHANGED <<readers, project_cache, restvars>>

\* Lines 419-420: build_effective_pom calls itself for the parent; a recursion
\* deeper than the stack aborts the program.
AssembleParent(project) ==
    IF BepDepth >= MaxDepth THEN Unwind
    ELSE /\ stack' = Append([stack EXCEPT ![Len(stack)].project = project,
                                          ![Len(stack)].step = "parent"],
                            Frame("build_effective_pom", with_packaging(Unwrap(project.parent), "pom"), 1))
         /\ UNCHANGED <<ret, readers, writer, project_cache>>

\* Lines 405-420: fetch_project has returned: on a failure the loop continues
\* with the next repository, otherwise the version is injected and the parent,
\* if any, assembled.
AfterFetchProject ==
    /\ At("build_effective_pom", "fetched")
    /\ IF ~ret.ok
       THEN /\ stack' = [stack EXCEPT ![Len(stack)].i = Top.i + 1,
                                      ![Len(stack)].step = "entry"]
            /\ UNCHANGED <<ret, readers, writer, project_cache>>
       ELSE IF IsSome(ret.val.parent)
       THEN AssembleParent(InjectProjectVersion(ret.val, Top.id))
       ELSE /\ stack' = [stack EXCEPT ![Len(stack)].project =
                                          InjectProjectVersion(ret.val, Top.id),
                                      ![Len(stack)].step = "dm"]
            /\ UNCHANGED <<ret, readers, writer, project_cache>>
    /\ UNCHANGED restvars

\* Lines 420-431: the parent's assembly has returned: its failure is
\* propagated, otherwise its dependencies are merged in.
AfterParentAssembly ==
    /\ At("build_effective_pom", "parent")
    /\ IF ~ret.ok
       THEN Return(ret)
       ELSE /\ stack' = [stack EXCEPT ![Len(stack)].project = MergeParent(Top.project, ret.val),
                                      ![Len(stack)].step = "dm"]
            /\ UNCHANGED ret
    /\ UNCHANGED <<readers, writer, project_cache, restvars>>

\* Lines 438-443 with the block interpolated: its BOMs are what the import
\* loop runs over.
BomsOf(dm, rev) ==
    IF ~dm.ok THEN Unwind
    ELSE /\ stack' = [stack EXCEPT ![Len(stack)].boms = Boms(dm.val, rev),
                                   ![Len(stack)].j = 1,
                                   ![Len(stack)].step = "boms"]
         /\ UNCHANGED <<ret, readers, writer, project_cache>>

\* Lines 433-443 and 461: a project without dependency management is returned;
\* otherwise the block is cloned and interpolated and its BOMs collected.
Interpolated(rev) ==
    /\ At("build_effective_pom", "dm")
    /\ IF IsNone(Top.project.dependency_management)
       THEN /\ Return(Ok(Top.project))
            /\ UNCHANGED <<readers, writer, project_cache>>
       ELSE BomsOf(InterpolateAll(Unwrap(Top.project.dependency_management),
                                  Top.project.properties), rev)
    /\ UNCHANGED restvars

\* Lines 445-450 and 461: build_effective_pom calls itself for the next BOM, or
\* returns the project after the last.
NextBom ==
    /\ At("build_effective_pom", "boms")
    /\ IF Top.j > Len(Top.boms)
       THEN /\ Return(Ok(Assembled(Top.project, <<>>)))
            /\ UNCHANGED <<readers, writer, project_cache>>
       ELSE IF BepDepth >= MaxDepth THEN Unwind
       ELSE /\ stack' = Append(Goto("bom"),
                              Frame("build_effective_pom",
                                    with_packaging(Top.boms[Top.j].artifact_fqn, "pom"), 1))
            /\ UNCHANGED <<ret, readers, writer, project_cache>>
    /\ UNCHANGED restvars

\* Lines 450-457: the BOM's assembly has returned: its failure is propagated,
\* otherwise the loop goes on (the merge is into the local project_dm).
AfterBomAssembly ==
    /\ At("build_effective_pom", "bom")
    /\ IF ~ret.ok
       THEN Return(ret)
       ELSE /\ stack' = [stack EXCEPT ![Len(stack)].j = Top.j + 1,
                                      ![Len(stack)].step = "boms"]
            /\ UNCHANGED ret
    /\ UNCHANGED <<readers, writer, project_cache, restvars>>

NextBorrow ==
    \/ \E project_id \in Requests : StartAssembly(project_id)
    \/ NextRepository
    \/ Lookup
    \/ Get
    \/ ReturnCached
    \/ EndLookup
    \/ \E rev \in BOOLEAN : Transport(rev)
    \/ BorrowMut
    \/ InsertProject
    \/ ReturnFetched
    \/ AfterFetchProject
    \/ AfterParentAssembly
    \/ \E rev \in BOOLEAN : Interpolated(rev)
    \/ NextBom
    \/ AfterBomAssembly

BorrowSpec == Init /\ [][NextBorrow]_vars

\* ------------------------------------------------------------ C18

\* C18: the cache is never held by a read guard and a write guard at the same
\* time: the read guard of the lookup is gone when the transport is called and
\* when the write guard is taken, and no guard is alive while
\* build_effective_pom runs or calls itself, at any depth of recursion.
C18_BorrowsNeverOverlap ==
    /\ ~(readers > 0 /\ writer)
    /\ (At("fetch_project", "transport") \/ At("fetch_project", "borrow_mut")) => (readers = 0 /\ ~writer)
    /\ (stack = <<>> \/ Top.fn = "build_effective_pom" \/ At("fetch_project", "entry")) => (readers = 0 /\ ~writer)
    /\ ret.kind # Panic

\* Inside the assembly of a parent, two calls deep, fetch_project holds the
\* write guard, after its lookup under the read guard missed.
C18_Witness ==
    /\ BepDepth >= 2
    /\ At("fetch_project", "stored")
    /\ writer
    /\ readers = 0

\* ------------------------------------------------------------ C19

\* C19: over any sequence of fetch_project, build_effective_pom and
\* download_all_jars calls on one resolver, a cache entry once inserted is
\* never removed and its project never changed: every step other than the
\* construction of a new resolver keeps every entry, key and project.
C19_CacheEntriesNeverChange ==
    [][NewResolver \/ \A k \in DOMAIN project_cache :
                          /\ k \in DOMAIN project_cache'
                          /\ project_cache'[k] = project_cache[k]]_vars

\* ------------------------------------------------------------ C20

\* C20: Artifact::interpolate never fails and changes no field but the version;
\* a version literal with a placeholder ${expr}, at any position, whose expr is
\* a key of the property map has the whole placeholder replaced by the
\* property's value; any other version is returned verbatim.
C20_InterpolateAnyPosition ==
    last.op = "interpolate" =>
        LET a == given.id
            v == IF IsSome(a.version) THEN Unwrap(a.version) ELSE <<>>
            opens == {i \in 1..Len(v) - 1 : v[i] = "$" /\ v[i + 1] = "{"}
            open == IF opens = {} THEN 0 ELSE CHOOSE i \in opens : \A j \in opens : i <= j
            closes == {i \in 1..Len(v) : i > open + 1 /\ v[i] = "}"}
            close == IF closes = {} THEN 0 ELSE CHOOSE i \in closes : \A j \in closes : i <= j
            expr == SubSeq(v, open + 2, close - 1)
        IN  IF open > 0 /\ close > 0 /\ expr \in DOMAIN given.properties
            THEN last.res = Ok([a EXCEPT !.version =
                                   Some(SubSeq(v, 1, open - 1) \o given.properties[expr]
                                        \o SubSeq(v, close + 1, Len(v)))])
            ELSE last.res = Ok(a)

\* ------------------------------------------------------------ C21

\* C21: Artifact::normalize only fills what is missing: every field of the
\* coordinate that is present before the call, the classifier included, has
\* the same value after it.
C21_NormalizeKeepsPresentFields ==
    last.op = "normalize" =>
        /\ last.res.ok
        /\ \A f \in {"group_id", "artifact_id", "version", "packaging", "classifier"} :
               IsSome(given.id[f]) => last.res.val[f] = given.id[f]

\* ------------------------------------------------------------ C22

\* C22: within one download_all_jars run each artifact, identified by group,
\* name, version and classifier, is processed at most once: no two coordinates
\* in done, the coordinates processed so far, differ only in packaging, so
\* that done has as many elements as the set the run returns.
C22_OncePerArtifact ==
    pc = "loop" =>
        /\ \A c, d \in done : with_packaging(c, "jar") = with_packaging(d, "jar") => c = d
        /\ Cardinality(done) = Cardinality({with_packaging(a, "jar") : a \in done})

====
